---------------------------- MODULE Spec2Model ----------------------------
(***************************************************************************)
(* A model of the LL(1) parser of hathix/parsers.                          *)
(*                                                                         *)
(*   src/src/app.js   class LL1Parser: the constructor (language           *)
(*                    inference, first sets, parse table), firstOfSymbol,  *)
(*                    followOfSymbol, firstOfNonterminal, parse.           *)
(*   src/src/util.js  the tree helpers siblingNode and addChildren.        *)
(*   src/app.js       the earlier script that computes the first and       *)
(*                    follow sets by repeated one-step expansion.          *)
(*                                                                         *)
(* A client builds a list of production rules, then either constructs an   *)
(* LL1Parser from it and queries or parses with it, or runs the set        *)
(* script over it.  A JavaScript exception is an outcome of the step that  *)
(* raises it ("TypeError", "RangeError"), never a missing transition.      *)
(***************************************************************************)
EXTENDS Integers, Sequences, FiniteSets, TLC

(***************************************************************************)
(* Bounds of the model.                                                    *)
(***************************************************************************)
\* longest rule list a client passes to the constructor
MaxRules == 3
\* longest input list a client passes to parse
MaxInput == 3
\* longest input list a client passes to the example parser
MaxExampleInput == 7
\* symbols by which a sentential form of a derivation may be longer than a
\* later one (nonterminals that are rewritten to the empty marker)
FormSlack == 2
\* call-stack frames available to the recursive set functions
StackLimit == 5
\* call-stack frames available to the recursive parseHelper
ParseStackLimit == 20

(***************************************************************************)
(* The special symbols (getters of LL1Parser).                             *)
(***************************************************************************)
START == "S"
END == "$"
EMPTY == "0"
\* the value JavaScript yields for a missing map entry or list element
Undefined == "undefined"

(***************************************************************************)
(* ProductionRule: left => right.                                          *)
(***************************************************************************)
ProductionRule(left, right) == [left |-> left, right |-> right]

\* The rules a client draws its rule list from: the rules of the example
\* grammar of src/src/app.js, followed by one rule for each further shape
\* the code distinguishes.
RulePool ==
    { ProductionRule("S", <<"a", "A", "B", "b">>),
      ProductionRule("A", <<"a", "A", "c">>),
      ProductionRule("A", <<"0">>),
      ProductionRule("B", <<"b", "B">>),
      ProductionRule("B", <<"c">>),
      \* a nonterminal between two terminals
      ProductionRule("S", <<"a", "A", "b">>),
      \* the right side ends in a nonterminal
      ProductionRule("S", <<"a", "A">>),
      \* the right side begins with a nonterminal
      ProductionRule("S", <<"A", "b">>),
      \* shares its first symbol with A => a A c
      ProductionRule("A", <<"a">>),
      \* a nonterminal directly followed by itself
      ProductionRule("S", <<"a", "A", "A", "b">>),
      \* an empty marker followed by the left side again
      ProductionRule("A", <<"0", "A">>),
      \* a left-recursive rule
      ProductionRule("A", <<"A", "a">>),
      \* the start symbol inside a right side, a terminal after it
      ProductionRule("S", <<"a", "S", "b">>) }

\* The terminals a client draws its input list from.
InputSymbols == {"a", "b", "c"}

RECURSIVE SeqsUpTo(_, _)
SeqsUpTo(S, n) ==
    IF n = 0 THEN { <<>> }
    ELSE LET shorter == SeqsUpTo(S, n - 1)
         IN  shorter \cup { Append(s, x) : s \in shorter, x \in S }

Range(seq) == { seq[i] : i \in DOMAIN seq }

(***************************************************************************)
(* Results of the set functions: a set of symbols, or a thrown error.      *)
(***************************************************************************)
Returned(set) == [err |-> "none", val |-> set]
Thrown(error) == [err |-> error, val |-> {}]

\* Immutable's flatten() of a collection of sets; an exception raised while
\* one of them is computed propagates.
Flatten(results) ==
    IF \E r \in results : r.err = "TypeError" THEN Thrown("TypeError")
    ELSE IF \E r \in results : r.err = "RangeError" THEN Thrown("RangeError")
    ELSE Returned(UNION { r.val : r \in results })

(***************************************************************************)
(* The language the constructor infers from the raw rule list.             *)
(***************************************************************************)
InferNonterminals(raw) == { raw[i].left : i \in DOMAIN raw }

InferTerminals(raw) ==
    { s \in UNION { Range(raw[i].right) : i \in DOMAIN raw } :
        s \notin InferNonterminals(raw) /\ s # EMPTY }

(***************************************************************************)
(* firstOfSymbol and firstOfProductionRule.  parser is the object the      *)
(* methods run on: its NONTERMINALS, its PRODUCTION_RULES (a sequence, in  *)
(* insertion order) and whether PRODUCTION_RULES has been assigned yet.    *)
(* frames is the number of call-stack frames left.                         *)
(***************************************************************************)
RECURSIVE firstOfSymbol(_, _, _)
firstOfProductionRule(rule, parser, frames) ==
    firstOfSymbol(Head(rule.right), parser, frames)

firstOfSymbol(symbol, parser, frames) ==
    IF frames = 0 THEN Thrown("RangeError")
    ELSE IF symbol \in parser.NONTERMINALS
    THEN IF ~parser.assigned
         THEN Thrown("TypeError")
         ELSE Flatten({ firstOfProductionRule(parser.PRODUCTION_RULES[i],
                                              parser, frames - 1) :
                        i \in { j \in DOMAIN parser.PRODUCTION_RULES :
                                  parser.PRODUCTION_RULES[j].left = symbol } })
    ELSE Returned({symbol})

(***************************************************************************)
(* followOfSymbol.                                                         *)
(***************************************************************************)
ButLast(seq) == SubSeq(seq, 1, Len(seq) - 1)

\* the symbols immediately to the right of the occurrences of symbol in the
\* rules that hold it before their last position
UnresolvedFollows_FirstRuleOnly(symbol, parser) ==
    LET validRules == { i \in DOMAIN parser.PRODUCTION_RULES :
                          symbol \in Range(ButLast(parser.PRODUCTION_RULES[i].right)) }
        rightSymbols(rule) ==
            { rule.right[index + 1] :
                index \in { k \in 1 .. (Len(rule.right) - 1) : rule.right[k] = symbol } }
    IN  UNION { rightSymbols(parser.PRODUCTION_RULES[i]) :
                i \in { j \in validRules : \A k \in validRules : j <= k } }

UnresolvedFollows(symbol, parser) ==
    LET validRules == { i \in DOMAIN parser.PRODUCTION_RULES :
                          symbol \in Range(ButLast(parser.PRODUCTION_RULES[i].right)) }
        rightSymbols(rule) ==
            { rule.right[index + 1] :
                index \in { k \in 1 .. (Len(rule.right) - 1) : rule.right[k] = symbol } }
    IN  UNION { rightSymbols(parser.PRODUCTION_RULES[i]) : i \in validRules }

RECURSIVE followOfSymbol(_, _, _)
RECURSIVE followOfSymbol_StartEmpty(_, _, _)
followOfSymbol_StartEmpty(symbol, parser, frames) ==
    IF frames = 0 THEN Thrown("RangeError")
    ELSE IF symbol = START
    THEN Returned({EMPTY})
    ELSE IF symbol \in parser.NONTERMINALS
    THEN Flatten({ followOfSymbol_StartEmpty(s, parser, frames - 1) :
                   s \in UnresolvedFollows(symbol, parser) })
    ELSE Returned({symbol})

\* the start symbol given the end marker and then treated as any other
\* nonterminal
RECURSIVE followOfSymbol_StartAsOthers(_, _, _)
followOfSymbol_StartAsOthers(symbol, parser, frames) ==
    IF frames = 0 THEN Thrown("RangeError")
    ELSE IF symbol \in parser.NONTERMINALS
    THEN Flatten({ followOfSymbol_StartAsOthers(s, parser, frames - 1) :
                   s \in UnresolvedFollows(symbol, parser) \ {symbol} }
                 \cup (IF symbol = START THEN { Returned({END}) } ELSE {}))
    ELSE Returned({symbol})

followOfSymbol(symbol, parser, frames) ==
    IF frames = 0 THEN Thrown("RangeError")
    ELSE IF symbol = START
    THEN Returned({END})
    ELSE IF symbol \in parser.NONTERMINALS
    THEN Flatten({ followOfSymbol(s, parser, frames - 1) :
                   s \in UnresolvedFollows(symbol, parser) })
    ELSE Returned({symbol})


(***************************************************************************)
(* The LL1Parser constructor.                                              *)
(***************************************************************************)
\* the value of an absent table cell
NoRule == [left |-> Undefined, right |-> <<>>, first |-> {}]

\* the parser while PRODUCTION_RULES is being computed: the field is not
\* assigned until every rule's first set has been found
Unassigned(raw) ==
    [NONTERMINALS |-> InferNonterminals(raw),
     PRODUCTION_RULES |-> <<>>,
     assigned |-> FALSE]

\* rule.first of every raw rule, as the constructor's map computes it
RuleFirsts(raw) ==
    [i \in DOMAIN raw |-> firstOfProductionRule(raw[i], Unassigned(raw), StackLimit)]

\* PRODUCTION_RULES: the rules, each cloned and given its first set
WithFirsts(raw) ==
    [i \in DOMAIN raw |->
        [left |-> raw[i].left, right |-> raw[i].right, first |-> RuleFirsts(raw)[i].val]]

Assigned(nonterminals, rules) ==
    [NONTERMINALS |-> nonterminals, PRODUCTION_RULES |-> rules, assigned |-> TRUE]

\* the filter of a table cell: rule belongs in cell (nonterminal, terminal).
\* followOfSymbol is only evaluated when the first two tests leave it open.
Qualifies(rule, nonterminal, terminal, parser) ==
    \/ terminal \in rule.first
    \/ /\ EMPTY \in rule.first
       /\ terminal \in followOfSymbol(nonterminal, parser, StackLimit).val

\* the filter on the left side forgotten
ValidRules_AnyLeft(nonterminal, terminal, parser) ==
    { i \in DOMAIN parser.PRODUCTION_RULES :
        Qualifies(parser.PRODUCTION_RULES[i], nonterminal, terminal, parser) }

\* the rules with the nonterminal on the left that pass the filter, by their
\* place in PRODUCTION_RULES
ValidRules(nonterminal, terminal, parser) ==
    { i \in DOMAIN parser.PRODUCTION_RULES :
        /\ parser.PRODUCTION_RULES[i].left = nonterminal
        /\ Qualifies(parser.PRODUCTION_RULES[i], nonterminal, terminal, parser) }

Min(set) == CHOOSE x \in set : \A y \in set : x <= y
\* .first() of the filtered rules: the earliest one, or undefined
Cell(nonterminal, terminal, parser) ==
    LET valid == ValidRules(nonterminal, terminal, parser)
    IN  IF valid = {} THEN NoRule ELSE parser.PRODUCTION_RULES[Min(valid)]

\* the table given a column for the end marker as well
BuildTable_WithEnd(nonterminals, terminals, rules) ==
    [nonterminal \in nonterminals |->
        [terminal \in terminals \cup {END} |->
            Cell(nonterminal, terminal, Assigned(nonterminals, rules))]]

BuildTable(nonterminals, terminals, rules) ==
    [nonterminal \in nonterminals |->
        [terminal \in terminals |->
            Cell(nonterminal, terminal, Assigned(nonterminals, rules))]]

\* the exception followOfSymbol raises while the table is built, if any
TableError(nonterminals, terminals, rules) ==
    LET parser == Assigned(nonterminals, rules)
        needFollow == { rules[i].left : i \in { j \in DOMAIN rules :
                          /\ EMPTY \in rules[j].first
                          /\ \E t \in terminals : t \notin rules[j].first } }
    IN  IF \E A \in needFollow : followOfSymbol(A, parser, StackLimit).err # "none"
        THEN "RangeError"
        ELSE "none"

\* how the constructor ends on a raw rule list: "none" (a parser), or the
\* exception that leaves it
ConstructorError(raw) ==
    IF \E i \in DOMAIN raw : RuleFirsts(raw)[i].err # "none"
    THEN RuleFirsts(raw)[Min({ i \in DOMAIN raw : RuleFirsts(raw)[i].err # "none" })].err
    ELSE TableError(InferNonterminals(raw), InferTerminals(raw), WithFirsts(raw))

(***************************************************************************)
(* firstOfNonterminal.                                                     *)
(***************************************************************************)
firstOfNonterminal(nonterminal, parser) ==
    UNION { parser.PRODUCTION_RULES[i].first :
            i \in { j \in DOMAIN parser.PRODUCTION_RULES :
                      parser.PRODUCTION_RULES[j].left = nonterminal } }

(***************************************************************************)
(* The tree helpers of src/src/util.js.  A tree maps the path of each node *)
(* (the child indices from the root) to the node's value; a cursor is a    *)
(* path.                                                                   *)
(***************************************************************************)
TreeNode(value) == (<<>> :> value)

Parent(node) == SubSeq(node, 1, Len(node) - 1)

Children(tree, node) ==
    { p \in DOMAIN tree : Len(p) = Len(node) + 1 /\ Parent(p) = node }

RECURSIVE siblingNode(_, _)
\* the node to the left taken for the node to the right
siblingNode_Left(tree, node) ==
    IF node = <<>>
    THEN node
    ELSE IF node[Len(node)] = Cardinality(Children(tree, Parent(node)))
    THEN siblingNode(tree, Parent(node))
    ELSE Append(Parent(node), IF node[Len(node)] > 1 THEN node[Len(node)] - 1 ELSE 1)

\* the rightmost child answering with itself instead of climbing
siblingNode_NoClimb(tree, node) ==
    IF node = <<>>
    THEN node
    ELSE IF node[Len(node)] = Cardinality(Children(tree, Parent(node)))
    THEN node
    ELSE Append(Parent(node), node[Len(node)] + 1)

siblingNode(tree, node) ==
    IF node = <<>>
    THEN node
    ELSE IF node[Len(node)] = Cardinality(Children(tree, Parent(node)))
    THEN siblingNode(tree, Parent(node))
    ELSE Append(Parent(node), node[Len(node)] + 1)

\* the new children attached last symbol first
addChildren_Reversed(tree, node, valueList) ==
    LET had == Cardinality(Children(tree, node))
        added == { Append(node, had + i) : i \in DOMAIN valueList }
    IN  [p \in DOMAIN tree \cup added |->
            IF p \in DOMAIN tree THEN tree[p]
            ELSE valueList[Len(valueList) + 1 - (p[Len(p)] - had)]]

\* push taking its argument for one value: the list becomes a single child
addChildren_OneChild(tree, node, valueList) ==
    LET had == Cardinality(Children(tree, node))
    IN  (Append(node, had + 1) :> valueList) @@ tree

addChildren(tree, node, valueList) ==
    LET had == Cardinality(Children(tree, node))
        added == { Append(node, had + i) : i \in DOMAIN valueList }
    IN  [p \in DOMAIN tree \cup added |->
            IF p \in DOMAIN tree THEN tree[p] ELSE valueList[p[Len(p)] - had]]

\* the cursor left on the node that was given its children
Leftmost_Self(node) == node

\* select('children').down().leftmost() of a node
Leftmost(node) == Append(node, 1)

(***************************************************************************)
(* The set script of src/app.js: one step toward a first or follow set,    *)
(* over the script's global NONTERMINALS, TERMINALS and PRODUCTION_RULES.  *)
(***************************************************************************)
first(symbol, nonterminals, rules) ==
    IF symbol \in nonterminals
    THEN { rules[i].right[1] : i \in { j \in DOMAIN rules : rules[j].left = symbol } }
    ELSE {symbol}

\* rule.right[index]; undefined past the end of the list
At(seq, index) == IF index \in DOMAIN seq THEN seq[index] ELSE Undefined

follow(symbol, nonterminals, rules) ==
    IF symbol = START
    THEN {EMPTY}
    ELSE IF symbol \in nonterminals
    THEN LET validRules == { i \in DOMAIN rules : symbol \in Range(ButLast(rules[i].right)) }
             follows(rule) ==
                 { At(rule.right, index + 1) :
                     index \in { k \in DOMAIN rule.right : rule.right[k] = symbol } }
         IN  UNION { follows(rules[i]) : i \in validRules }
    ELSE {symbol}

\* the test with its comparison slipped: every map passes
hasNoNonterminals_Always(setMap, nonterminals) ==
    Cardinality({ n \in DOMAIN setMap : nonterminals \cap setMap[n] # {} }) >= 0

hasNoNonterminals(setMap, nonterminals) ==
    { n \in DOMAIN setMap : nonterminals \cap setMap[n] # {} } = {}

\* one turn of the first while loop
FirstPass(setMap, nonterminals, rules) ==
    [n \in DOMAIN setMap |-> UNION { first(s, nonterminals, rules) : s \in setMap[n] }]

\* one turn of the second while loop
FollowPass(setMap, nonterminals, rules) ==
    [n \in DOMAIN setMap |->
        IF n = START
        THEN {END}
        ELSE UNION { follow(s, nonterminals, rules) : s \in setMap[n] }]

(***************************************************************************)
(* The state.                                                              *)
(***************************************************************************)
VARIABLES
    rawProductionRules, \* the rule list the client has built
    phase,              \* "listing", "parser", "threw" or "script"
    NONTERMINALS,       \* the language and the rules of the parser (or script)
    TERMINALS,
    PRODUCTION_RULES,
    parseTable,
    thrown,             \* the exception that left the constructor
    query,              \* the last set function called on the parser
    rawInputList,       \* the argument of parse
    input,              \* parseHelper's arguments
    stack,
    tree,
    cursor,
    frames,             \* parseHelper invocations on the call stack
    outcome,            \* "idle", "running", "tree", "null" or an exception
    other,              \* a second call of parse on the same parser
    firstSetMap,        \* the script's maps
    followSetMap,
    scriptPc            \* "off", "first", "follow" or "done"

parserVars == <<NONTERMINALS, TERMINALS, PRODUCTION_RULES, parseTable>>
parseVars == <<rawInputList, input, stack, tree, cursor, frames, outcome, other>>
scriptVars == <<firstSetMap, followSetMap, scriptPc>>
vars == <<rawProductionRules, phase, NONTERMINALS, TERMINALS, PRODUCTION_RULES,
          parseTable, thrown, query, rawInputList, input, stack, tree, cursor,
          frames, outcome, other, firstSetMap, followSetMap, scriptPc>>

\* the constructed parser, as the set functions see it
Self == Assigned(NONTERMINALS, PRODUCTION_RULES)

NoQuery == [kind |-> "none", symbol |-> Undefined, result |-> Returned({})]

\* a call of parse that has not been made
IdleCall ==
    [rawInputList |-> <<>>, input |-> <<>>, stack |-> <<>>, tree |-> TreeNode(START),
     cursor |-> <<>>, frames |-> 0, outcome |-> "idle"]

Init ==
    /\ rawProductionRules = <<>>
    /\ phase = "listing"
    /\ NONTERMINALS = {}
    /\ TERMINALS = {}
    /\ PRODUCTION_RULES = <<>>
    /\ parseTable = <<>>
    /\ thrown = "none"
    /\ query = NoQuery
    /\ rawInputList = <<>>
    /\ input = <<>>
    /\ stack = <<>>
    /\ tree = TreeNode(START)
    /\ cursor = <<>>
    /\ frames = 0
    /\ outcome = "idle"
    /\ other = IdleCall
    /\ firstSetMap = <<>>
    /\ followSetMap = <<>>
    /\ scriptPc = "off"

(***************************************************************************)
(* The client writes one more ProductionRule into its list.                *)
(***************************************************************************)
AddRule(rule) ==
    /\ phase = "listing"
    /\ Len(rawProductionRules) < MaxRules
    /\ rule \notin Range(rawProductionRules)
    /\ rawProductionRules' = Append(rawProductionRules, rule)
    /\ UNCHANGED <<phase, parserVars, thrown, query, parseVars, scriptVars>>

(***************************************************************************)
(* new LL1Parser(rawProductionRules)                                       *)
(***************************************************************************)
Construct ==
    /\ phase = "listing"
    /\ LET error == ConstructorError(rawProductionRules)
           nonterminals == InferNonterminals(rawProductionRules)
           terminals == InferTerminals(rawProductionRules)
           rules == WithFirsts(rawProductionRules)
       IN  IF error = "none"
           THEN /\ phase' = "parser"
                /\ NONTERMINALS' = nonterminals
                /\ TERMINALS' = terminals
                /\ PRODUCTION_RULES' = rules
                /\ parseTable' = BuildTable(nonterminals, terminals, rules)
                /\ thrown' = "none"
           ELSE /\ phase' = "threw"
                /\ thrown' = error
                /\ UNCHANGED parserVars
    /\ UNCHANGED <<rawProductionRules, query, parseVars, scriptVars>>

(***************************************************************************)
(* The client calls a set function of the constructed parser.              *)
(***************************************************************************)
QuerySymbols == NONTERMINALS \cup TERMINALS \cup {START}

CallFirstOfSymbol(symbol) ==
    /\ phase = "parser" /\ outcome = "idle"
    /\ query' = [kind |-> "firstOfSymbol", symbol |-> symbol,
                 result |-> firstOfSymbol(symbol, Self, StackLimit)]
    /\ UNCHANGED <<rawProductionRules, phase, parserVars, thrown, parseVars, scriptVars>>

CallFollowOfSymbol(symbol) ==
    /\ phase = "parser" /\ outcome = "idle"
    /\ query' = [kind |-> "followOfSymbol", symbol |-> symbol,
                 result |-> followOfSymbol(symbol, Self, StackLimit)]
    /\ UNCHANGED <<rawProductionRules, phase, parserVars, thrown, parseVars, scriptVars>>

CallFirstOfNonterminal(nonterminal) ==
    /\ phase = "parser" /\ outcome = "idle"
    /\ query' = [kind |-> "firstOfNonterminal", symbol |-> nonterminal,
                 result |-> Returned(firstOfNonterminal(nonterminal, Self))]
    /\ UNCHANGED <<rawProductionRules, phase, parserVars, thrown, parseVars, scriptVars>>

(***************************************************************************)
(* parse(rawInputList): the base input, stack and tree, and the first call *)
(* of parseHelper.  The set functions are pure, so a client that has       *)
(* called one is not followed into parse.                                  *)
(***************************************************************************)
Parse(rawInput) ==
    /\ phase = "parser" /\ outcome = "idle" /\ query = NoQuery
    /\ rawInputList' = rawInput
    /\ input' = Append(rawInput, END)
    /\ stack' = <<START>>
    /\ tree' = TreeNode(START)
    /\ cursor' = <<>>
    /\ frames' = 1
    /\ outcome' = "running"
    /\ UNCHANGED <<rawProductionRules, phase, parserVars, thrown, query, other, scriptVars>>

(***************************************************************************)
(* One invocation of parseHelper(input, stack, tree), by the branch taken. *)
(***************************************************************************)
topStackSymbol == Head(stack)
topInputSymbol == At(input, 1)

\* this.parseTable.get(topStackSymbol).get(topInputSymbol); NoRule stands for
\* every lookup that does not yield a rule (reading it raises a TypeError)
Lookup(table, stackSymbol, inputSymbol) ==
    IF stackSymbol \in DOMAIN table
    THEN IF inputSymbol \in DOMAIN table[stackSymbol]
         THEN table[stackSymbol][inputSymbol]
         ELSE NoRule
    ELSE NoRule

\* a further parseHelper frame fits on the call stack
CanCall == frames < ParseStackLimit

\* the tree returned whatever input is left (as the lodash version did)
HelperReturn_Unconditional ==
    /\ outcome = "running"
    /\ stack = <<>>
    /\ outcome' = "tree"
    /\ UNCHANGED <<rawProductionRules, phase, parserVars, thrown, query,
                   rawInputList, input, stack, tree, cursor, frames, other, scriptVars>>

HelperReturn ==
    /\ outcome = "running"
    /\ stack = <<>>
    /\ outcome' = IF input = <<END>> THEN "tree" ELSE "null"
    /\ UNCHANGED <<rawProductionRules, phase, parserVars, thrown, query,
                   rawInputList, input, stack, tree, cursor, frames, other, scriptVars>>

HelperMatch ==
    /\ outcome = "running"
    /\ stack # <<>>
    /\ topStackSymbol = topInputSymbol
    /\ CanCall
    /\ input' = Tail(input)
    /\ stack' = Tail(stack)
    /\ cursor' = siblingNode(tree, cursor)
    /\ frames' = frames + 1
    /\ UNCHANGED <<rawProductionRules, phase, parserVars, thrown, query,
                   rawInputList, tree, outcome, other, scriptVars>>

\* the empty branch shifting the input as the match branch does
HelperEmpty_ConsumesInput ==
    /\ outcome = "running"
    /\ stack # <<>>
    /\ topStackSymbol # topInputSymbol
    /\ topStackSymbol = EMPTY
    /\ CanCall
    /\ input' = IF input = <<>> THEN input ELSE Tail(input)
    /\ stack' = Tail(stack)
    /\ cursor' = siblingNode(tree, cursor)
    /\ frames' = frames + 1
    /\ UNCHANGED <<rawProductionRules, phase, parserVars, thrown, query,
                   rawInputList, tree, outcome, other, scriptVars>>

HelperEmpty ==
    /\ outcome = "running"
    /\ stack # <<>>
    /\ topStackSymbol # topInputSymbol
    /\ topStackSymbol = EMPTY
    /\ CanCall
    /\ stack' = Tail(stack)
    /\ cursor' = siblingNode(tree, cursor)
    /\ frames' = frames + 1
    /\ UNCHANGED <<rawProductionRules, phase, parserVars, thrown, query,
                   rawInputList, input, tree, outcome, other, scriptVars>>

\* pushAll laying the right side on the stack in reverse, its last symbol
\* on top
HelperExpand_Reversed ==
    /\ outcome = "running"
    /\ stack # <<>>
    /\ topStackSymbol # topInputSymbol
    /\ topStackSymbol # EMPTY
    /\ Lookup(parseTable, topStackSymbol, topInputSymbol) # NoRule
    /\ CanCall
    /\ LET rule == Lookup(parseTable, topStackSymbol, topInputSymbol)
       IN  /\ stack' = [k \in 1 .. Len(rule.right) |->
                            rule.right[Len(rule.right) + 1 - k]] \o Tail(stack)
           /\ tree' = addChildren(tree, cursor, rule.right)
           /\ cursor' = Leftmost(cursor)
    /\ frames' = frames + 1
    /\ UNCHANGED <<rawProductionRules, phase, parserVars, thrown, query,
                   rawInputList, input, outcome, other, scriptVars>>

HelperExpand ==
    /\ outcome = "running"
    /\ stack # <<>>
    /\ topStackSymbol # topInputSymbol
    /\ topStackSymbol # EMPTY
    /\ Lookup(parseTable, topStackSymbol, topInputSymbol) # NoRule
    /\ CanCall
    /\ LET rule == Lookup(parseTable, topStackSymbol, topInputSymbol)
       IN  /\ stack' = rule.right \o Tail(stack)
           /\ tree' = addChildren(tree, cursor, rule.right)
           /\ cursor' = Leftmost(cursor)
    /\ frames' = frames + 1
    /\ UNCHANGED <<rawProductionRules, phase, parserVars, thrown, query,
                   rawInputList, input, outcome, other, scriptVars>>

\* rule.right of an undefined rule, or .get of an undefined row
HelperThrow ==
    /\ outcome = "running"
    /\ stack # <<>>
    /\ topStackSymbol # topInputSymbol
    /\ topStackSymbol # EMPTY
    /\ Lookup(parseTable, topStackSymbol, topInputSymbol) = NoRule
    /\ outcome' = "TypeError"
    /\ UNCHANGED <<rawProductionRules, phase, parserVars, thrown, query,
                   rawInputList, input, stack, tree, cursor, frames, other, scriptVars>>

\* the recursive call does not fit on the call stack
HelperOverflow ==
    /\ outcome = "running"
    /\ stack # <<>>
    /\ \/ topStackSymbol = topInputSymbol
       \/ topStackSymbol = EMPTY
       \/ Lookup(parseTable, topStackSymbol, topInputSymbol) # NoRule
    /\ ~CanCall
    /\ outcome' = "RangeError"
    /\ UNCHANGED <<rawProductionRules, phase, parserVars, thrown, query,
                   rawInputList, input, stack, tree, cursor, frames, other, scriptVars>>

(***************************************************************************)
(* A call of parse as a value: its arguments and locals in one record.     *)
(* NewCall is the state parse sets up, parseHelper one invocation of the   *)
(* helper on it, and parse the whole call, run to its end.                 *)
(***************************************************************************)
NewCall(rawInput) ==
    [rawInputList |-> rawInput,
     input |-> Append(rawInput, END),
     stack |-> <<START>>,
     tree |-> TreeNode(START),
     cursor |-> <<>>,
     frames |-> 1,
     outcome |-> "running"]

parseHelper(call, table) ==
    IF call.stack = <<>>
    THEN [call EXCEPT !.outcome = IF call.input = <<END>> THEN "tree" ELSE "null"]
    ELSE LET stackSymbol == Head(call.stack)
             inputSymbol == At(call.input, 1)
             rule == Lookup(table, stackSymbol, inputSymbol)
         IN  IF stackSymbol # inputSymbol /\ stackSymbol # EMPTY /\ rule = NoRule
             THEN [call EXCEPT !.outcome = "TypeError"]
             ELSE IF call.frames >= ParseStackLimit
             THEN [call EXCEPT !.outcome = "RangeError"]
             ELSE IF stackSymbol = inputSymbol
             THEN [call EXCEPT !.input = Tail(call.input),
                               !.stack = Tail(call.stack),
                               !.cursor = siblingNode(call.tree, call.cursor),
                               !.frames = call.frames + 1]
             ELSE IF stackSymbol = EMPTY
             THEN [call EXCEPT !.stack = Tail(call.stack),
                               !.cursor = siblingNode(call.tree, call.cursor),
                               !.frames = call.frames + 1]
             ELSE [call EXCEPT !.stack = rule.right \o Tail(call.stack),
                               !.tree = addChildren(call.tree, call.cursor, rule.right),
                               !.cursor = Leftmost(call.cursor),
                               !.frames = call.frames + 1]

RECURSIVE RunToEnd(_, _)
RunToEnd(call, table) ==
    IF call.outcome # "running" THEN call ELSE RunToEnd(parseHelper(call, table), table)

parse(rawInput, table) == RunToEnd(NewCall(rawInput), table)

(***************************************************************************)
(* A second call of parse on the same parser, whose invocations of         *)
(* parseHelper may fall anywhere between those of the first.               *)
(***************************************************************************)
ParseOther(rawInput) ==
    /\ phase = "parser" /\ other.outcome = "idle" /\ query = NoQuery
    /\ other' = NewCall(rawInput)
    /\ UNCHANGED <<rawProductionRules, phase, parserVars, thrown, query,
                   rawInputList, input, stack, tree, cursor, frames, outcome, scriptVars>>

\* the calls keeping their stack in one place: the second call continues on
\* the stack the first call has reached
OtherStep_SharedStack ==
    /\ other.outcome = "running"
    /\ other' = parseHelper(IF outcome = "running"
                               THEN [other EXCEPT !.stack = stack]
                               ELSE other,
                            parseTable)
    /\ UNCHANGED <<rawProductionRules, phase, parserVars, thrown, query,
                   rawInputList, input, stack, tree, cursor, frames, outcome, scriptVars>>

OtherStep ==
    /\ other.outcome = "running"
    /\ other' = parseHelper(other, parseTable)
    /\ UNCHANGED <<rawProductionRules, phase, parserVars, thrown, query,
                   rawInputList, input, stack, tree, cursor, frames, outcome, scriptVars>>

(***************************************************************************)
(* The script of src/app.js run over the client's rules.                   *)
(***************************************************************************)
RunScript ==
    /\ phase = "listing"
    /\ phase' = "script"
    /\ NONTERMINALS' = InferNonterminals(rawProductionRules)
    /\ TERMINALS' = InferTerminals(rawProductionRules)
    /\ PRODUCTION_RULES' = rawProductionRules
    /\ firstSetMap' = [n \in InferNonterminals(rawProductionRules) |-> {n}]
    /\ followSetMap' = [n \in InferNonterminals(rawProductionRules) |-> {n}]
    /\ scriptPc' = "first"
    /\ UNCHANGED <<rawProductionRules, parseTable, thrown, query, parseVars>>

\* while (!hasNoNonterminals(firstSetMap)) { ... }
FirstLoop ==
    /\ scriptPc = "first"
    /\ IF hasNoNonterminals(firstSetMap, NONTERMINALS)
       THEN /\ scriptPc' = "follow"
            /\ UNCHANGED firstSetMap
       ELSE /\ firstSetMap' = FirstPass(firstSetMap, NONTERMINALS, PRODUCTION_RULES)
            /\ UNCHANGED scriptPc
    /\ UNCHANGED <<rawProductionRules, phase, parserVars, thrown, query, parseVars,
                   followSetMap>>

\* while (!hasNoNonterminals(followSetMap)) { ... }
FollowLoop ==
    /\ scriptPc = "follow"
    /\ IF hasNoNonterminals(followSetMap, NONTERMINALS)
       THEN /\ scriptPc' = "done"
            /\ UNCHANGED followSetMap
       ELSE /\ followSetMap' = FollowPass(followSetMap, NONTERMINALS, PRODUCTION_RULES)
            /\ UNCHANGED scriptPc
    /\ UNCHANGED <<rawProductionRules, phase, parserVars, thrown, query, parseVars,
                   firstSetMap>>

Next ==
    \/ \E rule \in RulePool : AddRule(rule)
    \/ Construct
    \/ \E symbol \in QuerySymbols : CallFirstOfSymbol(symbol)
    \/ \E symbol \in QuerySymbols : CallFollowOfSymbol(symbol)
    \/ \E nonterminal \in NONTERMINALS : CallFirstOfNonterminal(nonterminal)
    \/ \E rawInput \in SeqsUpTo(InputSymbols, MaxInput) : Parse(rawInput)
    \/ HelperReturn
    \/ HelperMatch
    \/ HelperEmpty
    \/ HelperExpand
    \/ HelperThrow
    \/ HelperOverflow
    \/ RunScript
    \/ FirstLoop
    \/ FollowLoop

Spec == Init /\ [][Next]_vars

(***************************************************************************)
(* The sets alone: a client that builds any rule list of the pool, then    *)
(* constructs the parser and asks it for first and follow sets, or runs    *)
(* the script's two solvers on the list; nothing is parsed.                *)
(***************************************************************************)
NextSets ==
    \/ \E rule \in RulePool : AddRule(rule)
    \/ Construct
    \/ \E symbol \in QuerySymbols : CallFirstOfSymbol(symbol)
    \/ \E symbol \in QuerySymbols : CallFollowOfSymbol(symbol)
    \/ \E nonterminal \in NONTERMINALS : CallFirstOfNonterminal(nonterminal)
    \/ RunScript
    \/ FirstLoop
    \/ FollowLoop

SpecSets == Init /\ [][NextSets]_vars

(***************************************************************************)
(* Parsing alone: a client that builds its rule list from the rules whose  *)
(* right side begins with a terminal or the empty marker, lists the rules  *)
(* of the start symbol first, then those of A, then those of B (a row of   *)
(* the table keeps the order of its own nonterminal's rules only, so the   *)
(* order of rules with different left sides reaches no cell), constructs   *)
(* the parser and parses lists of the grammar's terminals, as parse is     *)
(* documented to be called.                                                *)
(***************************************************************************)
ParseRulePool ==
    { rule \in RulePool : Head(rule.right) \notin { headed.left : headed \in RulePool } }

LeftOrder == <<START, "A", "B">>

LeftRank(symbol) == CHOOSE i \in DOMAIN LeftOrder : LeftOrder[i] = symbol

AddRuleGrouped(rule) ==
    /\ IF rawProductionRules = <<>>
          THEN TRUE
          ELSE LeftRank(rawProductionRules[Len(rawProductionRules)].left)
                   <= LeftRank(rule.left)
    /\ AddRule(rule)

ParseTerminals(rawInput) ==
    /\ phase = "parser"
    /\ Range(rawInput) \subseteq TERMINALS
    /\ Parse(rawInput)

NextParse ==
    \/ \E rule \in ParseRulePool : AddRuleGrouped(rule)
    \/ Construct
    \/ \E rawInput \in SeqsUpTo(InputSymbols, MaxInput) : ParseTerminals(rawInput)
    \/ HelperReturn
    \/ HelperMatch
    \/ HelperEmpty
    \/ HelperExpand
    \/ HelperThrow
    \/ HelperOverflow

SpecParse == Init /\ [][NextParse]_vars

(***************************************************************************)
(* The example parser of src/src/app.js: the state after                   *)
(* new LL1Parser([...]) on the example grammar, and the calls a client     *)
(* makes on it.  Every right side of the example grammar begins with a     *)
(* terminal or the empty marker, so parseHelper is entered at most twice   *)
(* for each input symbol and a few times more: no call runs out of frames. *)
(***************************************************************************)
ExampleGrammar ==
    << ProductionRule("S", <<"a", "A", "B", "b">>),
       ProductionRule("A", <<"a", "A", "c">>),
       ProductionRule("A", <<"0">>),
       ProductionRule("B", <<"b", "B">>),
       ProductionRule("B", <<"c">>) >>

\* the input list of the example: "aacbbcb".split("")
ExampleInput == <<"a", "a", "c", "b", "b", "c", "b">>

\* symbols parse does not check its input list for: a nonterminal and the
\* empty marker
InvalidSymbols == {"A", EMPTY}

\* the input lists a client passes to the example parser: lists of
\* terminals, and short lists that also hold symbols that are no terminals
ExampleInputs ==
    SeqsUpTo(InputSymbols, MaxExampleInput)
        \cup SeqsUpTo(InputSymbols \cup InvalidSymbols, MaxInput)

InitExample ==
    /\ rawProductionRules = ExampleGrammar
    /\ phase = "parser"
    /\ NONTERMINALS = InferNonterminals(ExampleGrammar)
    /\ TERMINALS = InferTerminals(ExampleGrammar)
    /\ PRODUCTION_RULES = WithFirsts(ExampleGrammar)
    /\ parseTable = BuildTable(InferNonterminals(ExampleGrammar),
                               InferTerminals(ExampleGrammar),
                               WithFirsts(ExampleGrammar))
    /\ thrown = ConstructorError(ExampleGrammar)
    /\ query = NoQuery
    /\ rawInputList = <<>>
    /\ input = <<>>
    /\ stack = <<>>
    /\ tree = TreeNode(START)
    /\ cursor = <<>>
    /\ frames = 0
    /\ outcome = "idle"
    /\ other = IdleCall
    /\ firstSetMap = <<>>
    /\ followSetMap = <<>>
    /\ scriptPc = "off"

NextExample ==
    \/ \E symbol \in QuerySymbols : CallFirstOfSymbol(symbol)
    \/ \E symbol \in QuerySymbols : CallFollowOfSymbol(symbol)
    \/ \E nonterminal \in NONTERMINALS : CallFirstOfNonterminal(nonterminal)
    \/ \E rawInput \in ExampleInputs : Parse(rawInput)
    \/ HelperReturn
    \/ HelperMatch
    \/ HelperEmpty
    \/ HelperExpand
    \/ HelperThrow

SpecExample == InitExample /\ [][NextExample]_vars

\* two calls of parse on the example parser
NextCalls ==
    \/ \E rawInput \in SeqsUpTo(InputSymbols, MaxInput) : Parse(rawInput)
    \/ \E rawInput \in SeqsUpTo(InputSymbols, MaxInput) : ParseOther(rawInput)
    \/ HelperReturn
    \/ HelperMatch
    \/ HelperEmpty
    \/ HelperExpand
    \/ HelperThrow
    \/ OtherStep

SpecCalls == InitExample /\ [][NextCalls]_vars

(***************************************************************************)
(* The notions the properties are stated in.  They are defined from the    *)
(* grammar alone, independently of the parser's own computations.          *)
(***************************************************************************)
\* the constructor's documented precondition: a rule has START on the left
HasStartRule(raw) == START \in InferNonterminals(raw)

\* FIRST of every nonterminal: the least sets with
\* FIRST(X) = union over the rules X => w of FIRST(w[1]), FIRST(t) = {t}
RECURSIVE FirstFix(_, _)
FirstFix(F, raw) ==
    LET nts == InferNonterminals(raw)
        G == [X \in nts |->
                UNION { IF Head(raw[i].right) \in nts
                        THEN F[Head(raw[i].right)]
                        ELSE {Head(raw[i].right)} :
                        i \in { j \in DOMAIN raw : raw[j].left = X } }]
    IN  IF G = F THEN F ELSE FirstFix(G, raw)

FIRST(symbol, raw) ==
    IF symbol \in InferNonterminals(raw)
    THEN FirstFix([X \in InferNonterminals(raw) |-> {}], raw)[symbol]
    ELSE {symbol}

\* FOLLOW of every nonterminal: the least sets with END in FOLLOW(START),
\* FIRST(Y) in FOLLOW(X) for every X Y inside a right side, and FOLLOW(A) in
\* FOLLOW(X) for every rule A => ... X
RECURSIVE FollowFix(_, _)
FollowFix(F, raw) ==
    LET nts == InferNonterminals(raw)
        G == [X \in nts |->
                (IF X = START THEN {END} ELSE {})
                \cup UNION { UNION { FIRST(raw[i].right[k + 1], raw) :
                                     k \in { m \in 1 .. (Len(raw[i].right) - 1) :
                                               raw[i].right[m] = X } } :
                             i \in DOMAIN raw }
                \cup UNION { F[raw[i].left] :
                             i \in { j \in DOMAIN raw :
                                       raw[j].right[Len(raw[j].right)] = X } }]
    IN  IF G = F THEN F ELSE FollowFix(G, raw)

FOLLOW(nonterminal, raw) ==
    FollowFix([X \in InferNonterminals(raw) |-> {}], raw)[nonterminal]

\* rule i of the grammar belongs in cell (A, a)
Triggers(raw, i, a) ==
    \/ a \in FIRST(Head(raw[i].right), raw)
    \/ /\ EMPTY \in FIRST(Head(raw[i].right), raw)
       /\ a \in FOLLOW(raw[i].left, raw)

\* no cell of the grammar's LL(1) table qualifies for two rules
ConflictFree(raw) ==
    \A i, j \in DOMAIN raw :
        (i # j /\ raw[i].left = raw[j].left)
            => \A a \in InferTerminals(raw) \cup {END} :
                   ~(Triggers(raw, i, a) /\ Triggers(raw, j, a))

\* some nonterminal can begin its own expansion
RECURSIVE HeadsFix(_, _)
HeadsFix(H, raw) ==
    LET nts == InferNonterminals(raw)
        G == [X \in nts |->
                UNION { {Head(raw[i].right)} \cup
                        (IF Head(raw[i].right) \in nts THEN H[Head(raw[i].right)] ELSE {}) :
                        i \in { j \in DOMAIN raw : raw[j].left = X } }]
    IN  IF G = H THEN H ELSE HeadsFix(G, raw)

LeftRecursive(raw) ==
    \E X \in InferNonterminals(raw) :
        X \in HeadsFix([Y \in InferNonterminals(raw) |-> {}], raw)[X]

\* The language of the grammar: w is derivable from START.  Spans holds
\* <<X, i, j>> when nonterminal X derives w[i+1 .. j].
SymbolSpans(symbol, T, raw, w) ==
    IF symbol = EMPTY
    THEN { <<i, i>> : i \in 0 .. Len(w) }
    ELSE IF symbol \in InferNonterminals(raw)
    THEN { <<t[2], t[3]>> : t \in { u \in T : u[1] = symbol } }
    ELSE { <<i - 1, i>> : i \in { k \in 1 .. Len(w) : w[k] = symbol } }

RECURSIVE SequenceSpans(_, _, _, _, _)
SequenceSpans(right, k, T, raw, w) ==
    IF k = 0
    THEN { <<i, i>> : i \in 0 .. Len(w) }
    ELSE LET before == SequenceSpans(right, k - 1, T, raw, w)
             last == SymbolSpans(right[k], T, raw, w)
         IN  { <<pq[1][1], pq[2][2]>> :
                 pq \in { x \in before \X last : x[1][2] = x[2][1] } }

RECURSIVE SpansFix(_, _, _)
SpansFix(T, raw, w) ==
    LET G == T \cup UNION { { <<raw[i].left, sp[1], sp[2]>> :
                              sp \in SequenceSpans(raw[i].right, Len(raw[i].right), T, raw, w) } :
                            i \in DOMAIN raw }
    IN  IF G = T THEN T ELSE SpansFix(G, raw, w)

InLanguage(raw, w) == <<START, 0, Len(w)>> \in SpansFix({}, raw, w)

\* the values of the leaves below a node, left to right
RECURSIVE Leaves(_, _)
RECURSIVE LeavesOfChildren(_, _, _)
LeavesOfChildren(t, node, k) ==
    IF k = 0 THEN <<>>
    ELSE LeavesOfChildren(t, node, k - 1) \o Leaves(t, Append(node, k))

Leaves(t, node) ==
    IF Children(t, node) = {}
    THEN <<t[node]>>
    ELSE LeavesOfChildren(t, node, Cardinality(Children(t, node)))

NotEmptyMarker(symbol) == symbol # EMPTY

\* the string a tree spells
Yield(t) == SelectSeq(Leaves(t, <<>>), NotEmptyMarker)

\* parse has ended, by a return or by an exception
ParseEnded == outcome \notin {"idle", "running"}

(***************************************************************************)
(* The properties.                                                         *)
(***************************************************************************)

\* C1: round trip.  For a grammar the constructor accepts (one with a start
\* rule) and a string derivable from the start symbol, parse returns a tree
\* (not null, not an exception) whose leaves, read left to right without
\* the empty markers, spell the string.
C1_RoundTrip ==
    (/\ phase = "parser"
     /\ HasStartRule(rawProductionRules)
     /\ ParseEnded
     /\ InLanguage(rawProductionRules, rawInputList))
        => (outcome = "tree" /\ Yield(tree) = rawInputList)

\* C2: for an input list of terminals that is not in the grammar's language
\* parse returns the failure value null: no tree, and no exception.
C2_RejectsWithNull ==
    (/\ phase = "parser"
     /\ HasStartRule(rawProductionRules)
     /\ ParseEnded
     /\ ~InLanguage(rawProductionRules, rawInputList))
        => outcome = "null"

\* C3: in the table the constructor built, cell (A, a) holds rule A => w
\* if and only if a is in the rule's first set, or the empty marker is in
\* it and a is in the follow set of A.
C3_CellIffQualifies ==
    phase = "parser" =>
        \A A \in NONTERMINALS : \A a \in TERMINALS :
            \A i \in { j \in DOMAIN PRODUCTION_RULES : PRODUCTION_RULES[j].left = A } :
                (parseTable[A][a] = PRODUCTION_RULES[i])
                    <=> Qualifies(PRODUCTION_RULES[i], A, a, Self)

\* C4: construction fails with a Conflict error as soon as two distinct
\* rules with the same left side qualify for one cell: no parser is ever
\* constructed whose table has a cell that two rules qualify for.
C4_ConflictIsReported ==
    phase = "parser" =>
        \A A \in NONTERMINALS : \A a \in TERMINALS :
            Cardinality(ValidRules(A, a, Self)) <= 1

\* C5: for a grammar with a start rule, no left recursion and no LL(1)
\* conflict, the constructor completes without an exception, also when a
\* right side begins with a nonterminal.
C5_ConflictFreeConstructs ==
    (/\ phase \in {"parser", "threw"}
     /\ HasStartRule(rawProductionRules)
     /\ ~LeftRecursive(rawProductionRules)
     /\ ConflictFree(rawProductionRules))
        => (phase = "parser" /\ thrown = "none")

\* C6: the follow set computed for the start symbol contains the end
\* marker: followOfSymbol(START) returns a set that holds END, and when the
\* script has finished, its follow set of START holds END.
C6_StartFollowHasEnd ==
    /\ (query.kind = "followOfSymbol" /\ query.symbol = START)
          => (query.result.err = "none" /\ END \in query.result.val)
    /\ (scriptPc = "done" /\ START \in DOMAIN followSetMap)
          => END \in followSetMap[START]

\* a client has asked the constructed parser for the follow set of START
\* and has been given a set that holds END
C6_Witness ==
    /\ phase = "parser"
    /\ query.kind = "followOfSymbol"
    /\ query.symbol = START
    /\ END \in query.result.val

\* C7: firstOfSymbol of a nonterminal X is the union, over the rules
\* X => w, of FIRST of w's first symbol, wherever the program calls it: in
\* the constructor (for the first symbol of each right side of a grammar
\* with a start rule and no left recursion) and on the constructed parser;
\* firstOfNonterminal(X) is the same set.
C7_FirstOfNonterminal ==
    /\ (/\ phase \in {"parser", "threw"}
        /\ HasStartRule(rawProductionRules)
        /\ ~LeftRecursive(rawProductionRules)) =>
          \A i \in DOMAIN rawProductionRules :
              Head(rawProductionRules[i].right) \in InferNonterminals(rawProductionRules)
                  => RuleFirsts(rawProductionRules)[i]
                        = Returned(FIRST(Head(rawProductionRules[i].right),
                                         rawProductionRules))
    /\ (query.kind \in {"firstOfSymbol", "firstOfNonterminal"}
          /\ query.symbol \in NONTERMINALS)
          => query.result = Returned(FIRST(query.symbol, rawProductionRules))

\* C8: for a non-start nonterminal X directly followed by Y inside a right
\* side, the computed follow set of X contains the first set of Y.
C8_FollowHasFirstOfNext ==
    phase = "parser" =>
        \A i \in DOMAIN PRODUCTION_RULES :
            \A k \in 1 .. (Len(PRODUCTION_RULES[i].right) - 1) :
                LET X == PRODUCTION_RULES[i].right[k]
                    Y == PRODUCTION_RULES[i].right[k + 1]
                    followX == followOfSymbol(X, Self, StackLimit)
                    firstY == firstOfSymbol(Y, Self, StackLimit)
                IN  (X \in NONTERMINALS \ {START}
                       /\ followX.err = "none" /\ firstY.err = "none")
                        => firstY.val \subseteq followX.val

\* C9: for a nonterminal X in the last position of a rule A => ... X, the
\* computed follow set of X contains the computed follow set of A.
C9_FollowHasFollowOfLeft ==
    phase = "parser" =>
        \A i \in DOMAIN PRODUCTION_RULES :
            LET X == PRODUCTION_RULES[i].right[Len(PRODUCTION_RULES[i].right)]
                followX == followOfSymbol(X, Self, StackLimit)
                followA == followOfSymbol(PRODUCTION_RULES[i].left, Self, StackLimit)
            IN  (X \in NONTERMINALS /\ followX.err = "none" /\ followA.err = "none")
                    => followA.val \subseteq followX.val

\* C10: the first and follow computations terminate.  No call of a set
\* function, by the constructor or by a client, exhausts the call stack,
\* and no turn of a loop of the script leaves its map as it was without
\* leaving the loop.
C10_SetsTerminate ==
    /\ thrown # "RangeError"
    /\ query.result.err # "RangeError"
    /\ ~(/\ scriptPc = "first"
         /\ ~hasNoNonterminals(firstSetMap, NONTERMINALS)
         /\ FirstPass(firstSetMap, NONTERMINALS, PRODUCTION_RULES) = firstSetMap)
    /\ ~(/\ scriptPc = "follow"
         /\ ~hasNoNonterminals(followSetMap, NONTERMINALS)
         /\ FollowPass(followSetMap, NONTERMINALS, PRODUCTION_RULES) = followSetMap)

\* C11: the sets the script produced are a fixed point of the one-step
\* expansion: once the first loop has ended, one more turn of its body
\* leaves firstSetMap unchanged, and once the follow loop has ended, one
\* more turn of its body leaves followSetMap unchanged.
C11_SolverIdempotent ==
    /\ scriptPc \in {"follow", "done"}
          => FirstPass(firstSetMap, NONTERMINALS, PRODUCTION_RULES) = firstSetMap
    /\ scriptPc = "done"
          => FollowPass(followSetMap, NONTERMINALS, PRODUCTION_RULES) = followSetMap

\* the script has finished on a grammar with several nonterminals, one of
\* which has a first set of several symbols
C11_Witness ==
    /\ scriptPc = "done"
    /\ Cardinality(DOMAIN firstSetMap) >= 2
    /\ \E n \in DOMAIN firstSetMap : Cardinality(firstSetMap[n]) >= 2
    /\ \E n \in DOMAIN followSetMap : n # START /\ followSetMap[n] # {}

\* the values of the children of a node, left to right
ChildValues(t, node) ==
    [k \in 1 .. Cardinality(Children(t, node)) |-> t[Append(node, k)]]

\* C12: the example parser parses the input a a c b b c b: parse returns a
\* tree whose root S has exactly the four children a, A, B, b, in that
\* order.
C12_ExampleParses ==
    (rawInputList = ExampleInput /\ ParseEnded)
        => /\ outcome = "tree"
           /\ tree[<<>>] = START
           /\ ChildValues(tree, <<>>) = <<"a", "A", "B", "b">>

\* the example parser has returned a tree for the example input
C12_Witness ==
    /\ rawInputList = ExampleInput
    /\ outcome = "tree"
    /\ Cardinality(Children(tree, <<>>)) = 4

\* C13 as stated: in the tree of the input a a c b b c b, the A child of the
\* root expands as a A c, its inner A expands as a A c again, and the A
\* inside that expands as the empty marker.
C13_TwoApplications ==
    (rawInputList = ExampleInput /\ ParseEnded)
        => /\ outcome = "tree"
           /\ ChildValues(tree, <<2>>) = <<"a", "A", "c">>
           /\ ChildValues(tree, <<2, 2>>) = <<"a", "A", "c">>
           /\ ChildValues(tree, <<2, 2, 2>>) = <<EMPTY>>

\* C13 amended: in the tree of the input a a c b b c b, the A child of the
\* root expands as a A c, and its inner A expands as the empty marker, a
\* leaf: one application of A => a A c followed by A => empty.
C13_OneApplication ==
    (rawInputList = ExampleInput /\ ParseEnded)
        => /\ outcome = "tree"
           /\ ChildValues(tree, <<2>>) = <<"a", "A", "c">>
           /\ ChildValues(tree, <<2, 2>>) = <<EMPTY>>
           /\ Children(tree, <<2, 2, 1>>) = {}
           /\ Yield(tree) = ExampleInput

\* the tree returned for the example input holds an empty marker below the
\* inner A
C13_Witness ==
    /\ rawInputList = ExampleInput
    /\ outcome = "tree"
    /\ <<2, 2, 1>> \in DOMAIN tree
    /\ tree[<<2, 2, 1>>] = EMPTY

\* C14: for the example grammar, parse of the input a b fails with the
\* failure result (null, the code's value for a syntax error) and returns
\* no tree; it does not end in an exception.
C14_RejectsAB ==
    (phase = "parser" /\ rawProductionRules = ExampleGrammar
        /\ rawInputList = <<"a", "b">> /\ ParseEnded)
        => outcome = "null"

\* C15: for the example grammar, the first set of the terminal a is {a},
\* the first set of A is {a, empty}, by firstOfSymbol and by
\* firstOfNonterminal, and the follow set of A is {c, b}.
C15_ExampleSets ==
    rawProductionRules = ExampleGrammar =>
        /\ (query.kind = "firstOfSymbol" /\ query.symbol = "a")
              => query.result = Returned({"a"})
        /\ (query.kind \in {"firstOfSymbol", "firstOfNonterminal"} /\ query.symbol = "A")
              => query.result = Returned({"a", EMPTY})
        /\ (query.kind = "followOfSymbol" /\ query.symbol = "A")
              => query.result = Returned({"c", "b"})

\* a client has asked the example parser for the follow set of A
C15_Witness ==
    /\ rawProductionRules = ExampleGrammar
    /\ query.kind = "followOfSymbol"
    /\ query.symbol = "A"
    /\ query.result.val = {"b", "c"}

\* C16: a rule list in which no rule has START on its left is refused at
\* construction time: no parser is ever constructed from such a list (here:
\* from a list that holds rules, none of them for START).
C16_NoStartRuleRefused ==
    (phase = "parser" /\ rawProductionRules # <<>>)
        => HasStartRule(rawProductionRules)

\* The left-sentential forms of a grammar, with the empty markers left out.
\* A leftmost derivation never changes the symbols before the leftmost
\* nonterminal, so the search for target keeps only the forms whose
\* terminal prefix begins target.
Strip(form) == SelectSeq(form, NotEmptyMarker)

\* the place of the leftmost nonterminal of a form (Len + 1 if it has none)
LeftmostNonterminal(form, raw) ==
    LET places == { k \in DOMAIN form : form[k] \in InferNonterminals(raw) }
    IN  IF places = {} THEN Len(form) + 1 ELSE Min(places)

LeftmostSteps(form, raw) ==
    LET place == LeftmostNonterminal(form, raw)
    IN  IF place > Len(form) THEN {}
        ELSE { Strip(SubSeq(form, 1, place - 1) \o raw[i].right
                        \o SubSeq(form, place + 1, Len(form))) :
               i \in { j \in DOMAIN raw : raw[j].left = form[place] } }

LeadsTo(form, target, raw) ==
    LET place == LeftmostNonterminal(form, raw)
    IN  /\ Len(form) <= Len(target) + FormSlack
        /\ place - 1 <= Len(target)
        /\ SubSeq(form, 1, place - 1) = SubSeq(target, 1, place - 1)

RECURSIVE LeftFormsFix(_, _, _)
LeftFormsFix(forms, target, raw) ==
    LET more == forms \cup { g \in UNION { LeftmostSteps(f, raw) : f \in forms } :
                               LeadsTo(g, target, raw) }
    IN  IF more = forms THEN forms ELSE LeftFormsFix(more, target, raw)

LeftSentential(target, raw) == target \in LeftFormsFix({ <<START>> }, target, raw)

\* the input symbols parse has matched so far
Matched == SubSeq(rawInputList, 1, Len(rawInputList) + 1 - Len(input))

C18_RuleFirstStored ==
    (phase \in {"parser", "threw"} /\ ~LeftRecursive(rawProductionRules)) =>
        \A i \in DOMAIN rawProductionRules :
            /\ RuleFirsts(rawProductionRules)[i].err = "none"
            /\ WithFirsts(rawProductionRules)[i].first
                  = FIRST(Head(rawProductionRules[i].right), rawProductionRules)

\* what a call of parse gives back: how it ended and the tree it built
Result(call) == [outcome |-> call.outcome, tree |-> call.tree]

\* C19: parse never changes the parser's nonterminals, terminals, rules or
\* table, and each call works on a stack, input and tree of its own:
\* however the invocations of parseHelper of two calls on one parser are
\* interleaved, each call ends with the result it has when run alone.
C19_CallsIndependent ==
    /\ NONTERMINALS = InferNonterminals(rawProductionRules)
    /\ TERMINALS = InferTerminals(rawProductionRules)
    /\ PRODUCTION_RULES = WithFirsts(rawProductionRules)
    /\ parseTable = BuildTable(NONTERMINALS, TERMINALS, PRODUCTION_RULES)
    /\ ParseEnded
          => [outcome |-> outcome, tree |-> tree]
                = Result(parse(rawInputList, parseTable))
    /\ other.outcome \notin {"idle", "running"}
          => Result(other) = Result(parse(other.rawInputList, parseTable))

\* two calls on different input lists have both ended, one with a tree and
\* one without
C19_Witness ==
    /\ outcome = "tree"
    /\ other.outcome \notin {"idle", "running", "tree"}
    /\ Len(other.rawInputList) >= 2
    /\ other.frames >= 3

\* C20: a match step is taken only when the top of the stack and the next
\* input symbol are the same terminal (never for a nonterminal, the empty
\* marker or the end marker), and it removes exactly one symbol from the
\* front of the input and pops exactly one symbol from the stack.
C20_MatchOnlyTerminals ==
    [][HelperMatch => /\ topStackSymbol \in TERMINALS
                      /\ input' = Tail(input)
                      /\ stack' = Tail(stack)]_vars

\* C21: popping an empty marker and expanding a nonterminal leave the
\* remaining input as it is; while parse runs, the input changes only in a
\* match step, which removes exactly its first symbol.
C21_InputFrame ==
    [][/\ HelperEmpty => input' = input
       /\ HelperExpand => input' = input
       /\ (outcome = "running" /\ input' # input)
             => (HelperMatch /\ input' = Tail(input))]_vars

\* parse has matched one symbol, applied a rule with the empty marker and
\* popped the marker again
C21_Witness ==
    /\ outcome = "running"
    /\ Len(Matched) = 1
    /\ \E p \in DOMAIN tree : tree[p] = EMPTY
    /\ EMPTY \notin Range(stack)

\* C22: an expansion with nonterminal A on top of the stack, a next in the
\* input and A => w in cell (A, a) pops A and pushes w, the first symbol of
\* w on top and the stack below w as it was; it appends one child for each
\* symbol of w, in order, under the cursor's node and changes no other
\* node; and it moves the cursor to the first of the new children.
C22_ExpandStep ==
    [][HelperExpand =>
        LET w == Lookup(parseTable, topStackSymbol, topInputSymbol).right
            had == Cardinality(Children(tree, cursor))
        IN  /\ topStackSymbol \in NONTERMINALS
            /\ Lookup(parseTable, topStackSymbol, topInputSymbol).left = topStackSymbol
            /\ Len(stack') = Len(w) + Len(stack) - 1
            /\ SubSeq(stack', 1, Len(w)) = w
            /\ SubSeq(stack', Len(w) + 1, Len(stack')) = Tail(stack)
            /\ DOMAIN tree' = DOMAIN tree \cup { Append(cursor, had + k) : k \in DOMAIN w }
            /\ \A k \in DOMAIN w : tree'[Append(cursor, had + k)] = w[k]
            /\ \A p \in DOMAIN tree : tree'[p] = tree[p]
            /\ cursor' = Append(cursor, had + 1)
            /\ tree'[cursor'] = w[1]]_vars

\* a nonterminal below the root has been expanded by a rule of several
\* symbols and the cursor stands on the first of them
C22_Witness ==
    /\ outcome = "running"
    /\ Len(cursor) >= 2
    /\ cursor[Len(cursor)] = 1
    /\ Cardinality(Children(tree, Parent(cursor))) >= 2
    /\ Len(stack) >= 3

\* C23: when the stack is not empty and neither a match, nor an empty
\* step, nor an expansion applies (a terminal on top that differs from the
\* next input, or a nonterminal whose cell for the next input is absent),
\* parse stops with the failure result: it neither raises an exception nor
\* goes on.
C23_StuckIsSyntaxError ==
    (/\ ParseEnded
     /\ stack # <<>>
     /\ topStackSymbol # topInputSymbol
     /\ topStackSymbol # EMPTY
     /\ Lookup(parseTable, topStackSymbol, topInputSymbol) = NoRule)
        => outcome = "null"

\* p comes before q in pre-order: p is a proper ancestor of q, or p turns
\* left where the two paths part
PreOrderBefore(p, q) ==
    \/ Len(p) < Len(q) /\ SubSeq(q, 1, Len(p)) = p
    \/ \E k \in 1 .. Len(p) :
          /\ k <= Len(q)
          /\ SubSeq(p, 1, k - 1) = SubSeq(q, 1, k - 1)
          /\ p[k] < q[k]

\* C24: in every tree parse builds, siblingNode of the root is the root;
\* of a node that is not its parent's last child, the node immediately to
\* its right under the same parent; of a last child, siblingNode of its
\* parent.  It never is a node that comes before its argument in pre-order
\* or the argument itself, except the root.
C24_SiblingNode ==
    outcome # "idle" =>
        \A n \in DOMAIN tree :
            LET result == siblingNode(tree, n)
                last == Cardinality(Children(tree, Parent(n)))
            IN  /\ result \in DOMAIN tree
                /\ n = <<>> => result = <<>>
                /\ (n # <<>> /\ n[Len(n)] < last)
                      => result = Append(Parent(n), n[Len(n)] + 1)
                /\ (n # <<>> /\ n[Len(n)] = last)
                      => result = siblingNode(tree, Parent(n))
                /\ result = <<>> \/ PreOrderBefore(n, result)

\* a tree in which siblingNode climbs two levels from a last child to the
\* right neighbour of an ancestor, and from another last child to the root
C24_Witness ==
    /\ outcome # "idle"
    /\ \E n \in DOMAIN tree :
          /\ Len(n) >= 2
          /\ siblingNode(tree, n) # <<>>
          /\ Len(siblingNode(tree, n)) < Len(n)
    /\ \E n \in DOMAIN tree : Len(n) >= 2 /\ siblingNode(tree, n) = <<>>

\* the paths of the childless nodes at or below a node, left to right
RECURSIVE LeafPaths(_, _)
RECURSIVE LeafPathsOfChildren(_, _, _)
LeafPathsOfChildren(t, node, k) ==
    IF k = 0 THEN <<>>
    ELSE LeafPathsOfChildren(t, node, k - 1) \o LeafPaths(t, Append(node, k))

LeafPaths(t, node) ==
    IF Children(t, node) = {}
    THEN <<node>>
    ELSE LeafPathsOfChildren(t, node, Cardinality(Children(t, node)))

\* the values of the leaves not yet processed: the node under the cursor
\* and the childless nodes after it in pre-order, left to right
Unprocessed(t, node) ==
    LET paths == LeafPaths(t, <<>>)
        later == { k \in DOMAIN paths : paths[k] = node \/ PreOrderBefore(node, paths[k]) }
    IN  IF later = {} THEN <<>>
        ELSE [k \in 1 .. (Len(paths) + 1 - Min(later)) |-> t[paths[Min(later) + k - 1]]]

\* C25: at every step of parse with a non-empty stack, the node under the
\* cursor is valued with the symbol on top of the stack, and the stack
\* read top to bottom is the sequence of the values of the leaves not yet
\* processed.
C25_CursorAndStack ==
    (outcome = "running" /\ stack # <<>>)
        => /\ cursor \in DOMAIN tree
           /\ tree[cursor] = topStackSymbol
           /\ Children(tree, cursor) = {}
           /\ stack = Unprocessed(tree, cursor)

\* parse stands in the middle of a tree: leaves are done to the left of
\* the cursor, and several more wait on the stack
C25_Witness ==
    /\ outcome = "running"
    /\ Len(stack) >= 2
    /\ Len(cursor) >= 2
    /\ cursor[Len(cursor)] >= 2
    /\ stack = Unprocessed(tree, cursor)

\* C26: parse returns a tree exactly when the stack has become empty with
\* the end marker alone left of the input, and what it returns then is the
\* initial root node, valued with the start symbol; it returns null
\* exactly when the stack has become empty with other input left.
C26_ReturnConditions ==
    ParseEnded =>
        /\ outcome = "tree" <=> (stack = <<>> /\ input = <<END>>)
        /\ outcome = "null" <=> (stack = <<>> /\ input # <<END>>)
        /\ outcome = "tree" => (cursor = <<>> /\ tree[cursor] = START)

\* parse has returned null: the stack emptied with input left over
C26_Witness ==
    /\ outcome = "null"
    /\ stack = <<>>
    /\ Len(input) >= 2
    /\ Len(Matched) >= 1

\* the first call of parse, as a value
ThisCall ==
    [rawInputList |-> rawInputList, input |-> input, stack |-> stack, tree |-> tree,
     cursor |-> cursor, frames |-> frames, outcome |-> outcome]

\* C27: on every grammar the constructor accepts parse comes to an end by
\* itself: it never exhausts the call stack, and no expansion followed by
\* an empty step brings it back to the stack and input it had.
C27_ParseTerminates ==
    phase = "parser" =>
        /\ outcome # "RangeError"
        /\ outcome = "running" =>
              LET later == parseHelper(parseHelper(ThisCall, parseTable), parseTable)
              IN  ~(/\ later.outcome = "running"
                    /\ later.stack = stack
                    /\ later.input = input)

\* the nonterminal has an empty production and the end marker is in its
\* FOLLOW set
EndFollowsNullable(nonterminal, raw) ==
    /\ \E i \in DOMAIN raw : raw[i].left = nonterminal /\ raw[i].right = <<EMPTY>>
    /\ END \in FOLLOW(nonterminal, raw)

\* C28: the table has a column for each inferred terminal and for nothing
\* else, never for the end marker; so with a nonterminal on top of the
\* stack and the end marker next in the input no rule is found and no
\* expansion is taken, also for a nonterminal that has an empty production
\* and the end marker in its FOLLOW set.
C28_NoEndColumn ==
    phase = "parser" =>
        /\ END \notin TERMINALS
        /\ \A A \in NONTERMINALS : DOMAIN parseTable[A] = TERMINALS
        /\ (/\ outcome = "running"
            /\ stack # <<>>
            /\ topStackSymbol \in NONTERMINALS
            /\ topInputSymbol = END)
              => /\ Lookup(parseTable, topStackSymbol, topInputSymbol) = NoRule
                 /\ ~ENABLED HelperExpand
                 /\ ENABLED HelperThrow

\* parse stands on a nonterminal that has an empty production and the end
\* marker in its FOLLOW set, with the end marker next in the input
C28_Witness ==
    /\ outcome = "running"
    /\ stack # <<>>
    /\ topStackSymbol \in NONTERMINALS
    /\ topInputSymbol = END
    /\ EndFollowsNullable(topStackSymbol, rawProductionRules)

\* the start symbol occurs inside a right side, a terminal behind it
StartInsideRule(raw) ==
    \E i \in DOMAIN raw : \E k \in 1 .. (Len(raw[i].right) - 1) :
        /\ raw[i].right[k] = START
        /\ raw[i].right[k + 1] \in InferTerminals(raw)

\* C29: the follow set computed for the start symbol is exactly {END},
\* wherever the start symbol occurs on the right side of rules: by
\* followOfSymbol(START) on every parser, and in the script's followSetMap
\* once the script has finished.  No terminal that follows the start
\* symbol inside a rule is in it.
C29_StartFollowIsEnd ==
    /\ (query.kind = "followOfSymbol" /\ query.symbol = START)
          => query.result = Returned({END})
    /\ (scriptPc = "done" /\ START \in DOMAIN followSetMap)
          => followSetMap[START] = {END}

\* a client has asked for the follow set of START on a parser whose
\* grammar has the start symbol inside a right side
C29_Witness ==
    /\ phase = "parser"
    /\ StartInsideRule(rawProductionRules)
    /\ query.kind = "followOfSymbol"
    /\ query.symbol = START
    /\ query.result.err = "none"

\* C30: at every step of parse and in every tree it returns, each node
\* that has children is valued with a nonterminal A and the values of its
\* children, in order, are the right side of a rule A => w of the grammar;
\* a node valued with a terminal or the empty marker has no children.
C30_TreeMirrorsRules ==
    (phase = "parser" /\ outcome # "idle") =>
        \A n \in DOMAIN tree :
            /\ Children(tree, n) # {}
                  => /\ tree[n] \in NONTERMINALS
                     /\ \E i \in DOMAIN rawProductionRules :
                           /\ rawProductionRules[i].left = tree[n]
                           /\ rawProductionRules[i].right = ChildValues(tree, n)
            /\ tree[n] \in TERMINALS \cup {EMPTY} => Children(tree, n) = {}

\* parse has returned a tree of three levels with an empty marker in it
C30_Witness ==
    /\ outcome = "tree"
    /\ \E n \in DOMAIN tree : Len(n) >= 2 /\ tree[n] = EMPTY
    /\ \E n \in DOMAIN tree : Len(n) = 1 /\ Cardinality(Children(tree, n)) >= 2

=============================================================================
